---- MODULE Spec2Model ----
(***************************************************************************)
(* A model of imap-mailbox: the Imap class (connection lifecycle, initial  *)
(* scan, per-mailbox polling, delete / see / unsee) over a remote store    *)
(* reached through one ImapFlow client.  Every `await` of the source is a  *)
(* point where another task may run, so every action below is the code     *)
(* between two awaits of one asynchronous call.                            *)
(***************************************************************************)
EXTENDS Integers, Sequences, FiniteSets, TLC

\* ------------------------------------------------------------- bounds
MaxUid == 3
MaxRuns == 2
MaxPolls == 3
MaxSlots == 2
MaxTimers == 2
MaxCalls == 1
MaxSel == 2
MaxBacklog == 1
MaxText == 6

\* -------------------------------------------------- program constants
DEFAULT_RECONNECT_INTERVAL == 60000

\* The mailboxes the store lists, in list() order, and config.mailboxesToWatch.
PathList == <<"INBOX", "Archive">>
Paths == {PathList[k] : k \in 1..Len(PathList)}
Watched == <<"INBOX">>
\* config.reconnectInterval: 0 stands for "not configured" (falsy).
ReconnectIntervals == {0, 1500}

Uids == 1..MaxUid
Runs == 1..MaxRuns
Slots == 1..MaxSlots
None == <<>>

\* ------------------------------------------------------------ helpers
Max(S) == CHOOSE x \in S : \A y \in S : y <= x

Last(s) == s[Len(s)]

Range(s) == {s[k] : k \in 1..Len(s)}

\* Every order in which the store may answer a FETCH 1:* over the set S.
Perms(S) ==
    {f \in [1..Cardinality(S) -> S] : \A x \in S : \E k \in 1..Cardinality(S) : f[k] = x}

IsAscending(s) == \A a, b \in 1..Len(s) : a < b => s[a] < s[b]

\* Sequences over S of length at most n.
SeqUpTo(S, n) == UNION {[1..k -> S] : k \in 0..n}

\* setTimeout coerces its delay to an integer of at least 1 ms.
TimerDelay(ms) == IF ms < 1 THEN 1 ELSE ms

VARIABLES
    store,        \* [Paths -> SUBSET Uids]: the messages of each remote mailbox
    uidNext,      \* [Paths -> Nat]: the identifier the store gives the next message
    config,       \* [reconnectInterval]: the ImapConfig given to the constructor
    client,       \* number of ImapFlow clients constructed; this.client is the last (0: unset)
    clientUp,     \* [Runs -> BOOLEAN]: connect() of that client succeeded
    errHandlers,  \* [Runs -> Nat]: 'error' listeners registered on that client
    lock,         \* [Runs -> [Paths -> holder]]: each client's mailbox locks
    mailboxes,    \* [Paths -> 0..MaxRuns]: this.mailboxes; the value names a Mailbox object
    heap,         \* [Runs -> [Paths -> Nat]]: lastUid of the Mailbox object run r made for a path
    loadedMails,  \* this.loadedMails: sequence of [run, path, uid], run being the run() that pushed
    timers,       \* pending setTimeout(run): sequence of [by, delay]
    flushTimers,  \* the runs whose setTimeout(emitLoadedMails) is pending
    intervals,    \* [Paths -> Nat]: active setInterval(watchMailbox) timers
    userRun,      \* the caller has invoked run()
    run,          \* [Runs -> record]: the executions of run()
    poll,         \* [Slots -> record]: the executions of watchMailbox() in flight
    pollCount,    \* watchMailbox() executions started so far
    mut,          \* the deleteMails / seeMails / unseeMails call in progress or last finished
    callCount,    \* mutation calls started so far
    arrived,      \* [Paths -> SUBSET Uids]: identifiers emitted as newMail
    arrivedTwice, \* [Paths -> SUBSET Uids]: identifiers emitted as newMail more than once
    pollDone,     \* the last poll that emitted: [path, mails, wm, maxF]
    overlapped,   \* two polls of one mailbox have been in flight together
    maxFetched,   \* [Paths -> Nat]: highest identifier any fetch has returned
    scanned,      \* [Paths -> SUBSET Uids]: what the latest initial scan of the path found
    parsedMail,   \* the ParsedMail handed to the Mail constructor: [hasText, text]
    mail          \* the outcome of that constructor: [state, content]

vars == <<store, uidNext, config, client, clientUp, errHandlers, lock, mailboxes, heap,
          loadedMails, timers, flushTimers, intervals, userRun, run, poll, pollCount,
          mut, callCount, arrived, arrivedTwice, pollDone, overlapped, maxFetched,
          scanned, parsedMail, mail>>

storeVars == <<store, uidNext>>
clientVars == <<client, clientUp, errHandlers>>
timerVars == <<timers, flushTimers, intervals>>
histVars == <<arrived, arrivedTwice, pollDone, overlapped, maxFetched, scanned>>
mailVars == <<parsedMail, mail>>

IdlePoll == [pc |-> "idle", id |-> None, path |-> "", obj |-> 0, cgen |-> 0,
             msgs |-> <<>>, i |-> 0, mails |-> <<>>, owner |-> 0]
IdleRun == [pc |-> "idle", cgen |-> 0, connectFailed |-> FALSE, watchedErrors |-> FALSE,
            scan |-> 0, msgs |-> <<>>, i |-> 0, watch |-> 0]
IdleMut == [pc |-> "idle", op |-> "", path |-> "", uids |-> <<>>, cgen |-> 0,
            got |-> "none", storeCalls |-> 0, releases |-> 0, events |-> <<>>,
            result |-> "none"]

\* No ParsedMail has been handed over, no Mail constructed.
NoParsedMail == [hasText |-> FALSE, text |-> <<>>]
NoMail == [state |-> "none", content |-> <<>>]

\* The remote mailbox holding the messages 1..n: the next identifier is n + 1.
StoreOf(n) == 1..n

\* The constructor (lines 34-40) next to a store whose mailbox p holds the messages
\* 1..n[p]: empty registry, empty buffer, no client yet; pm is the ParsedMail a Mail
\* is about to be constructed from.
ConstructedWith(n, pm) ==
    /\ store = [p \in Paths |-> StoreOf(n[p])]
    /\ uidNext = [p \in Paths |-> n[p] + 1]
    /\ config \in [reconnectInterval : ReconnectIntervals]
    /\ client = 0
    /\ clientUp = [r \in Runs |-> FALSE]
    /\ errHandlers = [r \in Runs |-> 0]
    /\ lock = [r \in Runs |-> [p \in Paths |-> None]]
    /\ mailboxes = [p \in Paths |-> 0]
    /\ heap = [r \in Runs |-> [p \in Paths |-> 0]]
    /\ loadedMails = <<>>
    /\ timers = <<>>
    /\ flushTimers = {}
    /\ intervals = [p \in Paths |-> 0]
    /\ userRun = FALSE
    /\ run = [r \in Runs |-> IdleRun]
    /\ poll = [s \in Slots |-> IdlePoll]
    /\ pollCount = 0
    /\ mut = IdleMut
    /\ callCount = 0
    /\ arrived = [p \in Paths |-> {}]
    /\ arrivedTwice = [p \in Paths |-> {}]
    /\ pollDone = [path |-> "", mails |-> <<>>, wm |-> 0, maxF |-> 0]
    /\ overlapped = FALSE
    /\ maxFetched = [p \in Paths |-> 0]
    /\ scanned = [p \in Paths |-> {}]
    /\ parsedMail = pm
    /\ mail = NoMail

\* No Mail is being constructed.
Constructed(n) == ConstructedWith(n, NoParsedMail)

\* Construction next to an empty store.
Init == Constructed([p \in Paths |-> 0])

\* Construction next to a store that already holds messages.
InitStored == \E n \in [Paths -> 0..MaxBacklog] : Constructed(n)

\* ---------------------------------------------------------- the store
\* The store receives a message in mailbox p, which then holds identifiers up to at
\* most `most`: identifiers are handed out in increasing order.
Deliver(p, most) ==
    /\ uidNext[p] <= most
    /\ store' = [store EXCEPT ![p] = @ \cup {uidNext[p]}]
    /\ uidNext' = [uidNext EXCEPT ![p] = @ + 1]
    /\ UNCHANGED <<config, mailVars, clientVars, lock, mailboxes, heap, loadedMails, timerVars,
                   userRun, run, poll, pollCount, mut, callCount, histVars>>

\* ------------------------------------------------------ watchMailbox
\* The first index at or after k of a fetched message above the watermark w
\* (getLastMails' filter, line 306), or Len(msgs) + 1.
NextQual(msgs, k, w) ==
    IF \E j \in k..Len(msgs) : msgs[j] > w
    THEN CHOOSE j \in k..Len(msgs) : msgs[j] > w /\ \A h \in k..(j - 1) : msgs[h] <= w
    ELSE Len(msgs) + 1

\* watchMailbox returns (it never rejects): the slot is free again, and a run()
\* awaiting this poll (line 235) resumes.
PollEnd(s) ==
    /\ poll' = [poll EXCEPT ![s] = IdlePoll]
    /\ run' = IF poll[s].owner = 0 THEN run
              ELSE [run EXCEPT ![poll[s].owner].pc = "watched"]

\* The watermark a poll stores: the identifier of the last mail of its list (line 250).
NewWatermark(mails) == Last(mails)

\* Lines 249-255: with a non-empty list, set the watermark on the captured Mailbox
\* object, put that object back into the registry, and emit newMail for each mail
\* in list order.
PollReturn(s, mails, mf) ==
    LET pl == poll[s] IN
    /\ IF Len(mails) > 0
       THEN /\ heap' = [heap EXCEPT ![pl.obj][pl.path] = NewWatermark(mails)]
            /\ mailboxes' = [mailboxes EXCEPT ![pl.path] = pl.obj]
            /\ arrived' = [arrived EXCEPT ![pl.path] = @ \cup Range(mails)]
            /\ arrivedTwice' =
                   [arrivedTwice EXCEPT ![pl.path] = @ \cup (Range(mails) \cap arrived[pl.path])]
            /\ pollDone' = [path |-> pl.path, mails |-> mails, wm |-> NewWatermark(mails),
                            maxF |-> mf[pl.path]]
       ELSE UNCHANGED <<heap, mailboxes, arrived, arrivedTwice, pollDone>>
    /\ PollEnd(s)

\* getLastMails' loop from index k on (lines 305-311): messages at or below the
\* object's current lastUid are skipped without suspending; the first one above it
\* suspends the poll in getNewMail.
PollStep(s, msgs, k, mails, mf) ==
    LET pl == poll[s]
        j == NextQual(msgs, k, heap[pl.obj][pl.path])
    IN  IF j <= Len(msgs)
        THEN /\ poll' = [poll EXCEPT ![s] =
                            [pl EXCEPT !.pc = "parse", !.msgs = msgs, !.i = j, !.mails = mails]]
             /\ UNCHANGED <<heap, mailboxes, run, arrived, arrivedTwice, pollDone>>
        ELSE PollReturn(s, mails, mf)

FreeSlot(s) == poll[s].pc = "idle" /\ \A t \in Slots : t < s => poll[t].pc # "idle"

\* The synchronous start of watchMailbox(p) (lines 246-248, then search's call of
\* getMailboxLock at 364): capture the registry's Mailbox object and the client.
PollBegin(s, p, id, owner) ==
    /\ poll' = [poll EXCEPT ![s] = [IdlePoll EXCEPT !.pc = "lock", !.id = id, !.path = p,
                                     !.obj = mailboxes[p], !.cgen = client, !.owner = owner]]
    /\ overlapped' = (overlapped \/ \E t \in Slots : poll[t].pc # "idle" /\ poll[t].path = p)

\* A setInterval timer of mailbox p fires (lines 236-239).
Tick(p) ==
    /\ intervals[p] > 0
    /\ pollCount < MaxPolls
    /\ pollCount' = pollCount + 1
    /\ IF mailboxes[p] = 0
       THEN UNCHANGED <<poll, overlapped>>
       ELSE \E s \in Slots : FreeSlot(s) /\ PollBegin(s, p, <<"tick", pollCount + 1>>, 0)
    /\ UNCHANGED <<storeVars, config, mailVars, clientVars, lock, mailboxes, heap, loadedMails,
                   timerVars, userRun, run, mut, callCount, arrived, arrivedTwice,
                   pollDone, maxFetched, scanned>>

\* search (lines 364-367): the lock is granted once no task holds it.
PollLockGranted(s) ==
    LET pl == poll[s] IN
    /\ pl.pc = "lock"
    /\ lock[pl.cgen][pl.path] = None
    /\ lock' = [lock EXCEPT ![pl.cgen][pl.path] = <<"poll", pl.id>>]
    /\ poll' = [poll EXCEPT ![s].pc = "fetch"]
    /\ UNCHANGED <<storeVars, config, mailVars, clientVars, mailboxes, heap, loadedMails, timerVars,
                   userRun, run, pollCount, mut, callCount, histVars>>

\* search with no lock (line 367 false): no messages, so the poll ends with nothing.
PollLockNull(s) ==
    /\ poll[s].pc = "lock"
    /\ PollReturn(s, <<>>, maxFetched)
    /\ UNCHANGED <<storeVars, config, mailVars, clientVars, lock, loadedMails, timerVars, userRun,
                   pollCount, mut, callCount, overlapped, maxFetched, scanned>>

\* search's fetch completes (lines 368-376): the messages in the store's order, the
\* lock released, then getLastMails' loop.
PollFetchOk(s) ==
    LET pl == poll[s] IN
    /\ pl.pc = "fetch"
    /\ \E msgs \in Perms(store[pl.path]) :
          /\ maxFetched' = [maxFetched EXCEPT ![pl.path] = Max({@} \cup Range(msgs))]
          /\ PollStep(s, msgs, 1, <<>>, maxFetched')
    /\ lock' = [lock EXCEPT ![pl.cgen][pl.path] = None]
    /\ UNCHANGED <<storeVars, config, mailVars, clientVars, loadedMails, timerVars, userRun,
                   pollCount, mut, callCount, overlapped, scanned>>

\* search's fetch rejects: line 375 is skipped, watchMailbox's catch (257) swallows.
PollFetchThrow(s) ==
    /\ poll[s].pc = "fetch"
    /\ PollEnd(s)
    /\ UNCHANGED <<storeVars, config, mailVars, clientVars, lock, mailboxes, heap, loadedMails,
                   timerVars, userRun, pollCount, mut, callCount, histVars>>

\* getNewMail resolves (line 307): the mail is appended and the loop goes on.
PollParseOk(s) ==
    LET pl == poll[s] IN
    /\ pl.pc = "parse"
    /\ PollStep(s, pl.msgs, pl.i + 1, Append(pl.mails, pl.msgs[pl.i]), maxFetched)
    /\ UNCHANGED <<storeVars, config, mailVars, clientVars, lock, loadedMails, timerVars, userRun,
                   pollCount, mut, callCount, overlapped, maxFetched, scanned>>

\* getNewMail rejects (the parser fails): caught at 257, nothing stored or emitted.
PollParseThrow(s) ==
    /\ poll[s].pc = "parse"
    /\ PollEnd(s)
    /\ UNCHANGED <<storeVars, config, mailVars, clientVars, lock, mailboxes, heap, loadedMails,
                   timerVars, userRun, pollCount, mut, callCount, histVars>>

\* ------------------------------------------------------------- run()
ReconnectInterval == 
    IF config.reconnectInterval # 0 THEN config.reconnectInterval
    ELSE DEFAULT_RECONNECT_INTERVAL

\* restart (lines 192-195): setTimeout(run, reconnectInterval || default).
RestartDelay == TimerDelay(ReconnectInterval)

\* The 'error' listener (lines 200-206): setTimeout(run, timeout) with the
\* interval divided by 1000.
ErrorDelay == TimerDelay(ReconnectInterval \div 1000)

\* run() is entered (line 46) and connect() constructs a new client (line 179).
StartRun ==
    /\ client < MaxRuns
    /\ client' = client + 1
    /\ run' = [run EXCEPT ![client + 1] = [IdleRun EXCEPT !.pc = "connect", !.cgen = client + 1]]

\* The caller invokes run().
RunCall ==
    /\ ~userRun
    /\ userRun' = TRUE
    /\ StartRun
    /\ UNCHANGED <<storeVars, config, mailVars, clientUp, errHandlers, lock, mailboxes, heap,
                   loadedMails, timerVars, poll, pollCount, mut, callCount, histVars>>

\* A pending setTimeout(run) fires.
RestartFire ==
    \E k \in 1..Len(timers) :
        /\ timers' = SubSeq(timers, 1, k - 1) \o SubSeq(timers, k + 1, Len(timers))
        /\ StartRun
        /\ UNCHANGED <<storeVars, config, mailVars, clientUp, errHandlers, lock, mailboxes, heap,
                       loadedMails, flushTimers, intervals, userRun, poll, pollCount, mut,
                       callCount, histVars>>

\* What run() does once connect() has returned (lines 48-49): watchErrors registers
\* the listener on this.client, loadMailboxes calls list().
AfterConnect(r, failed) ==
    /\ errHandlers' = [errHandlers EXCEPT ![client] = @ + 1]
    /\ run' = [run EXCEPT ![r] = [@ EXCEPT !.pc = "list", !.cgen = client,
                                            !.connectFailed = failed, !.watchedErrors = TRUE]]

\* client.connect() resolves (lines 180-181).
RunConnectOk(r) ==
    /\ run[r].pc = "connect"
    /\ clientUp' = [clientUp EXCEPT ![run[r].cgen] = TRUE]
    /\ AfterConnect(r, FALSE)
    /\ UNCHANGED <<storeVars, config, mailVars, client, lock, mailboxes, heap, loadedMails, timerVars,
                   userRun, poll, pollCount, mut, callCount, histVars>>

\* client.connect() rejects: connect's catch calls restart() (line 183) and returns.
RunConnectFail(r) ==
    /\ run[r].pc = "connect"
    /\ Len(timers) < MaxTimers
    /\ timers' = Append(timers, [by |-> "connect", delay |-> RestartDelay])
    /\ AfterConnect(r, TRUE)
    /\ UNCHANGED <<storeVars, config, mailVars, client, clientUp, lock, mailboxes, heap, loadedMails,
                   flushTimers, intervals, userRun, poll, pollCount, mut, callCount, histVars>>

\* The connection of a connected client reports an error: every listener registered
\* on it schedules a restart.
TransportError(g) ==
    /\ g <= client
    /\ clientUp[g]
    /\ errHandlers[g] > 0
    /\ Len(timers) + errHandlers[g] <= MaxTimers
    /\ timers' = timers \o [k \in 1..errHandlers[g] |-> [by |-> "error", delay |-> ErrorDelay]]
    /\ UNCHANGED <<storeVars, config, mailVars, clientVars, lock, mailboxes, heap, loadedMails,
                   flushTimers, intervals, userRun, run, poll, pollCount, mut, callCount,
                   histVars>>

\* list() resolves (line 211): the scan of the first listed mailbox asks for its lock.
RunListOk(r) ==
    /\ run[r].pc = "list"
    /\ clientUp[run[r].cgen]
    /\ run' = [run EXCEPT ![r] = [@ EXCEPT !.pc = "scanLock", !.scan = 1, !.cgen = client]]
    /\ UNCHANGED <<storeVars, config, mailVars, clientVars, lock, mailboxes, heap, loadedMails,
                   timerVars, userRun, poll, pollCount, mut, callCount, histVars>>

\* list() rejects (always so on a client that never connected): run() rejects.
RunListThrow(r) ==
    /\ run[r].pc = "list"
    /\ run' = [run EXCEPT ![r].pc = "threw"]
    /\ UNCHANGED <<storeVars, config, mailVars, clientVars, lock, mailboxes, heap, loadedMails,
                   timerVars, userRun, poll, pollCount, mut, callCount, histVars>>

\* The watermark getLastUid returns for the fetched messages (lines 290-300).
ScanWatermark(msgs) == Max({1} \cup Range(msgs))

\* loadMailboxes stores the Mailbox object of the scanned path (lines 213-217) and
\* goes on to the next listed mailbox, or returns to run().
ScanDone(r, msgs) ==
    LET p == PathList[run[r].scan] IN
    /\ heap' = [heap EXCEPT ![r][p] = ScanWatermark(msgs)]
    /\ mailboxes' = [mailboxes EXCEPT ![p] = r]
    /\ scanned' = [scanned EXCEPT ![p] = Range(msgs)]
    /\ run' = [run EXCEPT ![r] =
                  IF run[r].scan < Len(PathList)
                  THEN [@ EXCEPT !.pc = "scanLock", !.scan = @ + 1, !.cgen = client,
                                 !.msgs = <<>>, !.i = 0]
                  ELSE [@ EXCEPT !.pc = "watch", !.watch = 1, !.msgs = <<>>, !.i = 0]]

\* search in getLastUid: the lock is granted.
RunScanLockGranted(r) ==
    LET p == PathList[run[r].scan] IN
    /\ run[r].pc = "scanLock"
    /\ lock[run[r].cgen][p] = None
    /\ lock' = [lock EXCEPT ![run[r].cgen][p] = <<"run", r>>]
    /\ run' = [run EXCEPT ![r].pc = "scanFetch"]
    /\ UNCHANGED <<storeVars, config, mailVars, clientVars, mailboxes, heap, loadedMails, timerVars,
                   userRun, poll, pollCount, mut, callCount, histVars>>

\* search in getLastUid without a lock: no messages, the watermark is 1.
RunScanLockNull(r) ==
    /\ run[r].pc = "scanLock"
    /\ ScanDone(r, <<>>)
    /\ UNCHANGED <<storeVars, config, mailVars, clientVars, lock, loadedMails, timerVars, userRun,
                   poll, pollCount, mut, callCount, arrived, arrivedTwice, pollDone,
                   overlapped, maxFetched>>

\* The scan's fetch completes and the lock is released; each message is then parsed.
RunScanFetchOk(r) ==
    LET p == PathList[run[r].scan] IN
    /\ run[r].pc = "scanFetch"
    /\ lock' = [lock EXCEPT ![run[r].cgen][p] = None]
    /\ \E msgs \in Perms(store[p]) :
          /\ maxFetched' = [maxFetched EXCEPT ![p] = Max({@} \cup Range(msgs))]
          /\ IF Len(msgs) = 0
             THEN ScanDone(r, msgs)
             ELSE /\ run' = [run EXCEPT ![r] = [@ EXCEPT !.pc = "scanParse", !.msgs = msgs, !.i = 1]]
                  /\ UNCHANGED <<heap, mailboxes, scanned>>
    /\ UNCHANGED <<storeVars, config, mailVars, clientVars, loadedMails, timerVars, userRun, poll,
                   pollCount, mut, callCount, arrived, arrivedTwice, pollDone, overlapped>>

\* The scan's fetch rejects: search never releases, run() rejects.
RunScanFetchThrow(r) ==
    /\ run[r].pc = "scanFetch"
    /\ run' = [run EXCEPT ![r].pc = "threw"]
    /\ UNCHANGED <<storeVars, config, mailVars, clientVars, lock, mailboxes, heap, loadedMails,
                   timerVars, userRun, poll, pollCount, mut, callCount, histVars>>

\* getNewMail resolves in getLastUid (lines 296-297): the mail joins loadedMails.
RunScanParseOk(r) ==
    LET p == PathList[run[r].scan] IN
    /\ run[r].pc = "scanParse"
    /\ loadedMails' = Append(loadedMails, [run |-> r, path |-> p, uid |-> run[r].msgs[run[r].i]])
    /\ IF run[r].i < Len(run[r].msgs)
       THEN /\ run' = [run EXCEPT ![r].i = @ + 1]
            /\ UNCHANGED <<heap, mailboxes, scanned>>
       ELSE ScanDone(r, run[r].msgs)
    /\ UNCHANGED <<storeVars, config, mailVars, clientVars, lock, timerVars, userRun, poll,
                   pollCount, mut, callCount, arrived, arrivedTwice, pollDone, overlapped,
                   maxFetched>>

\* getNewMail rejects in getLastUid: run() rejects.
RunScanParseThrow(r) ==
    /\ run[r].pc = "scanParse"
    /\ run' = [run EXCEPT ![r].pc = "threw"]
    /\ UNCHANGED <<storeVars, config, mailVars, clientVars, lock, mailboxes, heap, loadedMails,
                   timerVars, userRun, poll, pollCount, mut, callCount, histVars>>

\* watchMailboxes awaits the immediate poll of the next watched mailbox (line 235).
RunWatch(r) ==
    LET p == Watched[run[r].watch] IN
    /\ run[r].pc = "watch"
    /\ IF mailboxes[p] = 0
       THEN /\ run' = [run EXCEPT ![r].pc = "watched"]
            /\ UNCHANGED <<poll, overlapped>>
       ELSE /\ run' = [run EXCEPT ![r].pc = "watching"]
            /\ \E s \in Slots : FreeSlot(s) /\ PollBegin(s, p, <<"run", r>>, r)
    /\ UNCHANGED <<storeVars, config, mailVars, clientVars, lock, mailboxes, heap, loadedMails,
                   timerVars, userRun, pollCount, mut, callCount, arrived, arrivedTwice,
                   pollDone, maxFetched, scanned>>

\* A run() that cancels the recurring pollers of earlier sessions before it starts
\* its own.
RunWatched_CancelsOld(r) ==
    LET p == Watched[run[r].watch]
        more == run[r].watch < Len(Watched)
    IN
    /\ run[r].pc = "watched"
    /\ intervals' = [intervals EXCEPT ![p] = 1]
    /\ run' = [run EXCEPT ![r] = IF more THEN [@ EXCEPT !.pc = "watch", !.watch = @ + 1]
                                 ELSE [@ EXCEPT !.pc = "done"]]
    /\ flushTimers' = IF more THEN flushTimers ELSE flushTimers \cup {r}
    /\ UNCHANGED <<storeVars, config, mailVars, clientVars, lock, mailboxes, heap, loadedMails,
                   timers, userRun, poll, pollCount, mut, callCount, histVars>>

\* A run() that starts a recurring poller for every listed mailbox, watched or not.
RunWatched_EveryListed(r) ==
    /\ run[r].pc = "watched"
    /\ intervals' = [p \in Paths |-> intervals[p] + 1]
    /\ run' = [run EXCEPT ![r].pc = "done"]
    /\ flushTimers' = flushTimers \cup {r}
    /\ UNCHANGED <<storeVars, config, mailVars, clientVars, lock, mailboxes, heap, loadedMails,
                   timers, userRun, poll, pollCount, mut, callCount, histVars>>

\* The immediate poll has returned: setInterval (lines 236-239), then the next watched
\* mailbox, or back in run() the flush timer (line 51) and run() returns.
RunWatched(r) ==
    LET p == Watched[run[r].watch]
        more == run[r].watch < Len(Watched)
    IN
    /\ run[r].pc = "watched"
    /\ intervals' = [intervals EXCEPT ![p] = @ + 1]
    /\ run' = [run EXCEPT ![r] = IF more THEN [@ EXCEPT !.pc = "watch", !.watch = @ + 1]
                                 ELSE [@ EXCEPT !.pc = "done"]]
    /\ flushTimers' = IF more THEN flushTimers ELSE flushTimers \cup {r}
    /\ UNCHANGED <<storeVars, config, mailVars, clientVars, lock, mailboxes, heap, loadedMails,
                   timers, userRun, poll, pollCount, mut, callCount, histVars>>

\* The flush timer run r set (line 51) fires: emitLoadedMails (lines 279-284) emits
\* every buffered mail and empties the buffer.
EmitLoadedMails(r) ==
    /\ r \in flushTimers
    /\ flushTimers' = flushTimers \ {r}
    /\ loadedMails' = <<>>
    /\ UNCHANGED <<storeVars, config, mailVars, clientVars, lock, mailboxes, heap, timers, intervals,
                   userRun, run, poll, pollCount, mut, callCount, histVars>>

\* ---------------------------------------- deleteMails, seeMails, unseeMails
\* A UidsList names messages by identifier (uids) and by Mail object (mails, here
\* each Mail stands as its uid).
SelUids == 1..MaxSel
Selectors == [uids : SeqUpTo(SelUids, MaxSel), mails : SeqUpTo(SelUids, 1)]

RECURSIVE Dedup(_)
Dedup(s) ==
    IF s = <<>> THEN <<>>
    ELSE LET r == Dedup(SubSeq(s, 1, Len(s) - 1))
         IN  IF Last(s) \in Range(r) THEN r ELSE Append(r, Last(s))

\* utils.uidsAndMailsToUids: the selector's identifiers, in input order, without
\* duplicates.
uidsAndMailsToUids(sel) == Dedup(sel.uids \o sel.mails)

Ops == {"deleteMails", "seeMails", "unseeMails"}

Me == <<"call", callCount>>

\* A caller invokes one of the three operations on a running service: the selector
\* is normalised and getMailboxLock is called (lines 106-107, 131-132, 157-158).
MutCall(op, p, sel) ==
    /\ client > 0
    /\ mut.pc \in {"idle", "done"}
    /\ callCount < MaxCalls
    /\ callCount' = callCount + 1
    /\ mut' = [IdleMut EXCEPT !.pc = "lock", !.op = op, !.path = p,
                              !.uids = uidsAndMailsToUids(sel), !.cgen = client]
    /\ UNCHANGED <<storeVars, config, mailVars, clientVars, lock, mailboxes, heap, loadedMails,
                   timerVars, userRun, run, poll, pollCount, histVars>>

\* unseeMails goes on to its store operation only with identifiers (line 159); the
\* other two always do (lines 108, 133).
IssuesStoreCall(op, uids) == op # "unseeMails" \/ Len(uids) > 0

\* getMailboxLock resolves with a lock: the store operation is issued, or unseeMails
\* with no identifiers returns false (line 170).
MutLockGranted ==
    /\ mut.pc = "lock"
    /\ lock[mut.cgen][mut.path] = None
    /\ lock' = [lock EXCEPT ![mut.cgen][mut.path] = Me]
    /\ mut' = IF IssuesStoreCall(mut.op, mut.uids)
              THEN [mut EXCEPT !.pc = "op", !.got = "granted", !.storeCalls = @ + 1]
              ELSE [mut EXCEPT !.pc = "done", !.got = "granted", !.result = "false"]
    /\ UNCHANGED <<storeVars, config, mailVars, clientVars, mailboxes, heap, loadedMails, timerVars,
                   userRun, run, poll, pollCount, callCount, histVars>>

\* A call that goes on to its store operation although it was given no lock.
NoLockOutcome_Unguarded(m) == [m EXCEPT !.pc = "op", !.got = "null", !.storeCalls = @ + 1]

\* What a call does when getMailboxLock gave no lock (lines 118, 144, 170).
NoLockOutcome(m) == [m EXCEPT !.pc = "done", !.got = "null", !.result = "false"]

\* getMailboxLock resolves with no lock.
MutLockNull ==
    /\ mut.pc = "lock"
    /\ mut' = NoLockOutcome(mut)
    /\ UNCHANGED <<storeVars, config, mailVars, clientVars, lock, mailboxes, heap, loadedMails,
                   timerVars, userRun, run, poll, pollCount, callCount, histVars>>

\* The deletedMail events of a successful deleteMails (line 113), each with whether
\* the call's lock is held in lk, the locks at the moment of the emit.
DeletedEvents(m, lk) ==
    [k \in 1..Len(m.uids) |-> [uid |-> m.uids[k], held |-> lk[m.cgen][m.path] = Me]]

\* A deleteMails that releases its lock first and emits afterwards.
DeleteSucceeded_ReleaseFirst(m, lk) ==
    [m EXCEPT !.pc = "done",
              !.events = DeletedEvents(m, [lk EXCEPT ![m.cgen][m.path] = None]),
              !.releases = @ + 1, !.result = "true"]

\* deleteMails after a successful messageDelete (lines 112-116): emit, then release.
DeleteSucceeded(m, lk) ==
    [m EXCEPT !.pc = "done", !.events = DeletedEvents(m, lk), !.releases = @ + 1,
              !.result = "true"]

\* The store operation resolves true: a delete removes the messages from the store
\* and emits deletedMail; every operation releases and returns true.
MutOpTrue ==
    /\ mut.pc = "op"
    /\ store' = IF mut.op = "deleteMails"
                THEN [store EXCEPT ![mut.path] = @ \ Range(mut.uids)]
                ELSE store
    /\ mut' = IF mut.op = "deleteMails"
              THEN DeleteSucceeded(mut, lock)
              ELSE [mut EXCEPT !.pc = "done", !.releases = @ + 1, !.result = "true"]
    /\ lock' = [lock EXCEPT ![mut.cgen][mut.path] = None]
    /\ UNCHANGED <<uidNext, config, mailVars, clientVars, mailboxes, heap, loadedMails, timerVars,
                   userRun, run, poll, pollCount, callCount, histVars>>

\* The store operation resolves false: release, return false (lines 115-116, 141-142,
\* 167-168).
MutOpFalse ==
    /\ mut.pc = "op"
    /\ mut' = [mut EXCEPT !.pc = "done", !.releases = @ + 1, !.result = "false"]
    /\ lock' = [lock EXCEPT ![mut.cgen][mut.path] = None]
    /\ UNCHANGED <<storeVars, config, mailVars, clientVars, mailboxes, heap, loadedMails, timerVars,
                   userRun, run, poll, pollCount, callCount, histVars>>

\* The store operation rejects: the call rejects where it stands, nothing after the
\* await runs.
MutOpThrow ==
    /\ mut.pc = "op"
    /\ mut' = [mut EXCEPT !.pc = "done", !.result = "raised"]
    /\ UNCHANGED <<storeVars, config, mailVars, clientVars, lock, mailboxes, heap, loadedMails,
                   timerVars, userRun, run, poll, pollCount, callCount, histVars>>

\* --------------------------------------------------------- the system
StoreNext == \E p \in Paths : Deliver(p, MaxUid)

RunNext ==
    \/ RunCall
    \/ RestartFire
    \/ \E g \in Runs : TransportError(g)
    \/ \E r \in Runs : RunConnectOk(r)
    \/ \E r \in Runs : RunConnectFail(r)
    \/ \E r \in Runs : RunListOk(r)
    \/ \E r \in Runs : RunListThrow(r)
    \/ \E r \in Runs : RunScanLockGranted(r)
    \/ \E r \in Runs : RunScanLockNull(r)
    \/ \E r \in Runs : RunScanFetchOk(r)
    \/ \E r \in Runs : RunScanFetchThrow(r)
    \/ \E r \in Runs : RunScanParseOk(r)
    \/ \E r \in Runs : RunScanParseThrow(r)
    \/ \E r \in Runs : RunWatch(r)
    \/ \E r \in Runs : RunWatched(r)
    \/ \E r \in Runs : EmitLoadedMails(r)

TickNext == \E p \in Paths : Tick(p)

PollNext ==
    \/ \E s \in Slots : PollLockGranted(s)
    \/ \E s \in Slots : PollLockNull(s)
    \/ \E s \in Slots : PollFetchOk(s)
    \/ \E s \in Slots : PollFetchThrow(s)
    \/ \E s \in Slots : PollParseOk(s)
    \/ \E s \in Slots : PollParseThrow(s)

MutNext ==
    \/ \E op \in Ops, p \in Paths, sel \in Selectors : MutCall(op, p, sel)
    \/ MutLockGranted
    \/ MutLockNull
    \/ MutOpTrue
    \/ MutOpFalse
    \/ MutOpThrow

\* The whole service: the store, run() and its restarts, the pollers, the callers.
Next == StoreNext \/ RunNext \/ TickNext \/ PollNext \/ MutNext

Spec == Init /\ [][Next]_vars

\* The service once run() has completed its startup against a store holding the
\* messages 1..n in the watched mailbox and none elsewhere: one connected client with
\* its error listener, every listed mailbox scanned, the immediate poll found
\* nothing, one poller per watched mailbox, the loaded batch flushed.
Started(n) ==
    /\ store = [p \in Paths |-> IF p = Watched[1] THEN 1..n ELSE {}]
    /\ uidNext = [p \in Paths |-> IF p = Watched[1] THEN n + 1 ELSE 1]
    /\ config \in [reconnectInterval : ReconnectIntervals]
    /\ client = 1
    /\ clientUp = [r \in Runs |-> r = 1]
    /\ errHandlers = [r \in Runs |-> IF r = 1 THEN 1 ELSE 0]
    /\ lock = [r \in Runs |-> [p \in Paths |-> None]]
    /\ mailboxes = [p \in Paths |-> 1]
    /\ heap = [r \in Runs |-> [p \in Paths |->
                   IF r = 1 THEN ScanWatermark(IF p = Watched[1] THEN [k \in 1..n |-> k] ELSE <<>>)
                   ELSE 0]]
    /\ loadedMails = <<>>
    /\ timers = <<>>
    /\ flushTimers = {}
    /\ intervals = [p \in Paths |-> IF p = Watched[1] THEN 1 ELSE 0]
    /\ userRun = TRUE
    /\ run = [r \in Runs |-> IF r = 1
                 THEN [IdleRun EXCEPT !.pc = "done", !.cgen = 1, !.watchedErrors = TRUE,
                                      !.scan = Len(PathList), !.watch = Len(Watched)]
                 ELSE IdleRun]
    /\ poll = [s \in Slots |-> IdlePoll]
    /\ pollCount = 0
    /\ mut = IdleMut
    /\ callCount = 0
    /\ arrived = [p \in Paths |-> {}]
    /\ arrivedTwice = [p \in Paths |-> {}]
    /\ pollDone = [path |-> "", mails |-> <<>>, wm |-> 0, maxF |-> 0]
    /\ overlapped = FALSE
    /\ maxFetched = [p \in Paths |-> IF p = Watched[1] THEN n ELSE 0]
    /\ scanned = [p \in Paths |-> IF p = Watched[1] THEN 1..n ELSE {}]
    /\ parsedMail = NoParsedMail
    /\ mail = NoMail

InitStarted == \E n \in 0..MaxBacklog : Started(n)

\* run() and its restarts alone, from construction.
SpecRun == InitStored /\ [][Deliver(Watched[1], MaxBacklog + 1) \/ RunNext \/ PollNext]_vars

\* The pollers of a started service against a store that keeps receiving messages.
SpecWatch == InitStarted /\ [][Deliver(Watched[1], MaxUid) \/ TickNext \/ PollNext]_vars

\* The callers of a started service, next to its pollers.
SpecMutate ==
    InitStarted /\ [][Deliver(Watched[1], MaxBacklog + 1) \/ TickNext \/ PollNext \/ MutNext]_vars

\* The steps of one run() whose connection holds: no failed connect, no transport
\* error, no restart.
StartupNext ==
    \/ RunCall
    \/ \E r \in Runs : RunConnectOk(r)
    \/ \E r \in Runs : RunListOk(r)
    \/ \E r \in Runs : RunListThrow(r)
    \/ \E r \in Runs : RunScanLockGranted(r)
    \/ \E r \in Runs : RunScanLockNull(r)
    \/ \E r \in Runs : RunScanFetchOk(r)
    \/ \E r \in Runs : RunScanFetchThrow(r)
    \/ \E r \in Runs : RunScanParseOk(r)
    \/ \E r \in Runs : RunScanParseThrow(r)
    \/ \E r \in Runs : RunWatch(r)
    \/ \E r \in Runs : RunWatched(r)
    \/ \E r \in Runs : EmitLoadedMails(r)

\* One startup and the pollers it leaves behind, every mailbox receiving messages.
SpecStartup ==
    InitStored /\ [][(\E p \in Paths : Deliver(p, MaxBacklog + 1)) \/ StartupNext
                        \/ TickNext \/ PollNext]_vars

\* ------------------------------------------------------------- Mail
\* Text is a sequence of one-character strings.
LF == "\n"
Chars == {"a", "b", " ", LF}
Whitespace == {" ", LF}

\* The body of the specification's example.
ExampleBody ==
    <<"H", "e", "l", "l", "o", " ", "t", "h", "e", "r", "e", LF, "-", "-", "b", "o",
      "u", "n", "d", "a", "r", "y", "1", "2", "3", LF, "S", "e", "n", "t", " ", "f",
      "r", "o", "m", " ", "m", "y", " ", "p", "h", "o", "n", "e">>

Texts == SeqUpTo(Chars, MaxText) \cup {ExampleBody}

\* parsedMail.text is undefined, or a string.
ParsedMails ==
    {[hasText |-> FALSE, text |-> <<>>]} \cup {[hasText |-> TRUE, text |-> t] : t \in Texts}

\* A Mail is about to be constructed from some ParsedMail.
InitMail == \E pm \in ParsedMails : ConstructedWith([p \in Paths |-> 0], pm)

\* content.split('\n') (line 68): the segments between newlines, at least one.
RECURSIVE SplitLines(_)
SplitLines(t) ==
    IF \E i \in 1..Len(t) : t[i] = LF
    THEN LET i == CHOOSE i \in 1..Len(t) : t[i] = LF /\ \A h \in 1..(i - 1) : t[h] # LF
         IN  <<SubSeq(t, 1, i - 1)>> \o SplitLines(SubSeq(t, i + 1, Len(t)))
    ELSE <<t>>

\* textLines.pop() (line 69).
Pop(l) == IF l = <<>> THEN <<>> ELSE SubSeq(l, 1, Len(l) - 1)

\* line.slice(0, -2) (line 70).
SliceOffTwo(line) == IF Len(line) <= 2 THEN <<>> ELSE SubSeq(line, 1, Len(line) - 2)

\* sep stands in t at index i.
OccursAt(t, sep, i) == i + Len(sep) - 1 <= Len(t) /\ SubSeq(t, i, i + Len(sep) - 1) = sep

\* content.split(separator)[0] (line 71): with an empty separator the string is split
\* into its characters (no element at all for the empty string); otherwise the piece
\* before the separator's first occurrence, the whole string if it has none.
FirstPiece(t, sep) ==
    IF sep = <<>>
    THEN IF t = <<>> THEN [defined |-> FALSE, val |-> <<>>]
         ELSE [defined |-> TRUE, val |-> <<t[1]>>]
    ELSE IF \E i \in 1..Len(t) : OccursAt(t, sep, i)
         THEN LET i == CHOOSE i \in 1..Len(t) :
                           OccursAt(t, sep, i) /\ \A h \in 1..(i - 1) : ~OccursAt(t, sep, h)
              IN  [defined |-> TRUE, val |-> SubSeq(t, 1, i - 1)]
         ELSE [defined |-> TRUE, val |-> t]

\* String.prototype.trim (line 72).
RECURSIVE Trim(_)
Trim(t) ==
    IF t = <<>> THEN <<>>
    ELSE IF t[1] \in Whitespace THEN Trim(Tail(t))
    ELSE IF Last(t) \in Whitespace THEN Trim(SubSeq(t, 1, Len(t) - 1))
    ELSE t

Threw == [thrown |-> TRUE, value |-> <<>>]
Returned(v) == [thrown |-> FALSE, value |-> v]

\* The try block of parseContent (lines 67-73): reading .slice of the missing last
\* line, or .trim of a missing first piece, throws a TypeError.
TryBlock(content) ==
    LET textLines == Pop(SplitLines(content)) IN
    IF textLines = <<>> THEN Threw
    ELSE LET separator == SliceOffTwo(Last(textLines))
             separatedText == FirstPiece(content, separator)
         IN  IF separatedText.defined THEN Returned(Trim(separatedText.val)) ELSE Threw

\* parseContent without its catch: what the try block throws propagates.
parseContent_NoCatch(content) == TryBlock(content)

\* parseContent (lines 65-78): the catch turns whatever was thrown into ''.
parseContent(content) ==
    IF TryBlock(content).thrown THEN Returned(<<>>) ELSE TryBlock(content)

\* parsedMail.text || '' (line 37).
TextOrEmpty(pm) == IF pm.hasText THEN pm.text ELSE <<>>

\* new Mail(imap, mailboxPath, msg, parsedMail) (lines 26-40): content is
\* parseContent(parsedMail.text || ''); an exception of parseContent leaves the
\* constructor.
NewMail ==
    /\ mail.state = "none"
    /\ mail' = LET r == parseContent(TextOrEmpty(parsedMail)) IN
               IF r.thrown THEN [state |-> "raised", content |-> <<>>]
               ELSE [state |-> "built", content |-> r.value]
    /\ UNCHANGED <<storeVars, config, parsedMail, clientVars, lock, mailboxes, heap,
                   loadedMails, timerVars, userRun, run, poll, pollCount, mut, callCount,
                   histVars>>

\* The Mail constructor alone, over every ParsedMail.
SpecMail == InitMail /\ [][NewMail]_vars

\* ======================================================== properties
\* The watermark the registry holds for mailbox p (0: no entry).
Watermark(p) == IF mailboxes[p] = 0 THEN 0 ELSE heap[mailboxes[p]][p]

\* The last finished mutation call.
Finished == mut.pc = "done"

EventUids(m) == [k \in 1..Len(m.events) |-> m.events[k].uid]

\* C1: over any polls of a mailbox, overlapping ones included, the stored watermark
\* never decreases.
C1_WatermarkNeverDecreases == [][\A p \in Paths : Watermark(p)' >= Watermark(p)]_vars

\* C2: as long as no two polls of a mailbox have overlapped, no identifier has been
\* emitted as newMail more than once.
C2_NoDuplicateArrival == (~overlapped) => \A p \in Paths : arrivedTwice[p] = {}

\* C3: the newMail events of one poll are in ascending identifier order, and the
\* watermark the poll stores is the highest identifier among them.
C3_AscendingAndMax ==
    pollDone.mails # <<>> =>
        /\ IsAscending(pollDone.mails)
        /\ pollDone.wm = Max(Range(pollDone.mails))

\* C4: a run() whose connect attempt failed has not gone on to any later startup
\* step (error watcher, listing, scanning, pollers, flush) and has not thrown.
C4_FailedConnectStops ==
    \A r \in Runs :
        run[r].connectFailed =>
            /\ ~run[r].watchedErrors
            /\ run[r].pc \notin {"list", "scanLock", "scanFetch", "scanParse", "watch",
                                 "watching", "watched", "done", "threw"}

\* C5: a finished deleteMails / seeMails / unseeMails call that was given the lock has
\* released it exactly once and no longer holds it.
C5_LockReleasedOnEveryExit ==
    (Finished /\ mut.got = "granted") =>
        /\ mut.releases = 1
        /\ lock[mut.cgen][mut.path] # Me

\* C6: unseeMails with no identifiers returns false without asking for the lock and
\* without a store operation; deleteMails and seeMails with no identifiers, once
\* given the lock, issue their store operation.
C6_EmptyUnseeSkipsStore ==
    (Finished /\ mut.uids = <<>>) =>
        IF mut.op = "unseeMails"
        THEN mut.got = "none" /\ mut.storeCalls = 0 /\ mut.result = "false"
        ELSE mut.got = "granted" => mut.storeCalls = 1

\* C7 as stated: a deleteMails that succeeded at the store has emitted one deletedMail
\* per identifier in input order, each after its lock was released, and returned true.
C7_EventsAfterRelease ==
    (Finished /\ mut.op = "deleteMails" /\ mut.result = "true") =>
        /\ EventUids(mut) = mut.uids
        /\ \A k \in 1..Len(mut.events) : ~mut.events[k].held

\* C7 as amended: a deleteMails that succeeded at the store has emitted one
\* deletedMail per identifier in input order, each while its lock was still held,
\* then released the lock once, and returned true; no other call emits deletedMail
\* or returns true without a successful store operation.
C7_EventsBeforeRelease ==
    /\ (Finished /\ mut.op = "deleteMails" /\ mut.result = "true") =>
          /\ EventUids(mut) = mut.uids
          /\ \A k \in 1..Len(mut.events) : mut.events[k].held
          /\ mut.releases = 1
          /\ lock[mut.cgen][mut.path] # Me
    /\ (Finished /\ ~(mut.op = "deleteMails" /\ mut.result = "true")) => mut.events = <<>>

\* A deleteMails of two identifiers has succeeded.
C7_Witness ==
    /\ Finished /\ mut.op = "deleteMails" /\ mut.result = "true"
    /\ Len(mut.uids) = 2 /\ Len(mut.events) = 2

\* C8: a call that was given no lock has returned false, without raising, without a
\* store operation and without an event.
C8_NoLockNoEffect ==
    (Finished /\ mut.got = "null") =>
        /\ mut.result = "false"
        /\ mut.storeCalls = 0
        /\ mut.events = <<>>
        /\ mut.releases = 0

\* A seeMails call with a non-empty identifier list was refused the lock
\* and has returned.
C8_Witness == Finished /\ mut.got = "null" /\ mut.op = "seeMails" /\ mut.uids # <<>>

\* C9: every pending restart, whether scheduled by a failed connect or by the
\* transport-error listener, has the delay reconnectInterval (60000 by default).
C9_SameRestartDelay == \A k \in 1..Len(timers) : timers[k].delay = RestartDelay

\* C10: no poll that has ended still holds its mailbox lock: a lock held by a poll is
\* held by a poll in flight, inside its fetch.
C10_EndedPollHoldsNoLock ==
    \A g \in Runs, p \in Paths :
        (lock[g][p] # None /\ lock[g][p][1] = "poll") =>
            \E s \in Slots : poll[s].pc = "fetch" /\ poll[s].id = lock[g][p][2]

\* The flush timer of run r fires in this step.
FlushOf(r) == r \in flushTimers /\ r \notin flushTimers'

\* The buffered mails that run r's scan pushed.
BufferedBy(r, buf) == {k \in 1..Len(buf) : buf[k].run = r}

\* C11: the flush of a startup emits the mails that startup's scan found and leaves
\* the buffer empty; a startup that has ended without setting its flush timer has
\* left none of the mails it found in the buffer.
C11_DrainedOncePerStartup ==
    [][/\ \A r \in Runs :
              FlushOf(r) => /\ BufferedBy(r, loadedMails) = 1..Len(loadedMails)
                            /\ loadedMails' = <<>>
       /\ \A r \in Runs : run'[r].pc = "threw" => BufferedBy(r, loadedMails') = {}]_vars

\* The step in which run r's scan of a mailbox ends and loadMailboxes stores the
\* Mailbox object (a refused lock, an empty fetch, or the last message parsed).
ScanEnds(r) ==
    /\ run[r].pc \in {"scanLock", "scanFetch", "scanParse"}
    /\ run'[r].pc \in {"scanLock", "watch"}
    /\ run'[r].scan # run[r].scan \/ run'[r].pc = "watch"

\* The messages present in the mailbox run r is scanning, at the time of its scan:
\* the fetched ones once the fetch has answered, the store's otherwise.
PresentAtScan(r) ==
    IF run[r].pc = "scanParse" THEN Range(run[r].msgs) ELSE store[PathList[run[r].scan]]

\* C12: the watermark loadMailboxes stores for a mailbox is the highest identifier
\* present in it at the time of the scan, and 1 for an empty mailbox.
C12_ScanSeedsMaximum ==
    [][\A r \in Runs :
          ScanEnds(r) =>
              heap'[r][PathList[run[r].scan]] =
                  IF PresentAtScan(r) = {} THEN 1 ELSE Max(PresentAtScan(r))]_vars

\* C13: a run() whose connect attempt failed has not let an error escape, and the
\* restart it scheduled is pending or has started a later run().
C13_RetryWithoutError ==
    \A r \in Runs :
        run[r].connectFailed =>
            /\ run[r].pc # "threw"
            /\ (\E k \in 1..Len(timers) : timers[k].by = "connect") \/ client > r

\* The mailboxes config.mailboxesToWatch names, and the listed ones it does not.
WatchedPaths == Range(Watched)
UnwatchedPaths == Paths \ WatchedPaths

\* C14: a listed mailbox that is not in mailboxesToWatch has no recurring poller, no
\* poll in flight and no newMail event, and keeps the watermark its scan gave it; a
\* mailbox in mailboxesToWatch gets its recurring poller one at a time, from a run()
\* whose immediate poll of it has returned.
C14_OnlyWatchedArePolled ==
    [][/\ \A p \in UnwatchedPaths :
              /\ intervals'[p] = 0
              /\ arrived'[p] = {}
              /\ \A s \in Slots : poll'[s].pc # "idle" => poll'[s].path # p
              /\ mailboxes'[p] # 0 => Watermark(p)' = Max({1} \cup scanned'[p])
       /\ \A p \in WatchedPaths :
              intervals'[p] # intervals[p] =>
                  /\ intervals'[p] = intervals[p] + 1
                  /\ \E r \in Runs : run[r].pc = "watched" /\ Watched[run[r].watch] = p]_vars

\* An unwatched mailbox holds a message its scan did not see while the poller of a
\* watched mailbox has emitted newMail.
C14_Witness ==
    \E p \in UnwatchedPaths, q \in WatchedPaths :
        /\ mailboxes[p] # 0 /\ store[p] \ scanned[p] # {}
        /\ intervals[q] > 0 /\ arrived[q] # {} /\ pollCount = MaxPolls
        /\ \A s \in Slots : poll[s].pc = "idle"

\* C15: once a mailbox has a watermark, every step that changes it (a poll's update,
\* the re-scan of a restart, a poll of a superseded session) raises it, to the highest
\* identifier any scan or poll of that mailbox has fetched.
C15_MonotoneAcrossRestarts ==
    [][\A p \in Paths :
          (mailboxes[p] # 0 /\ Watermark(p)' # Watermark(p)) =>
              /\ Watermark(p)' > Watermark(p)
              /\ Watermark(p)' = Max({1, maxFetched'[p]})]_vars

\* C16: a poll that is computing its diff (it has read the watermark and will write
\* it) holds its mailbox's lock, and so does a scan on its way to writing the
\* watermark; hence no two polls of one mailbox are in their diff together.
C16_WatermarkUnderLock ==
    /\ \A s \in Slots :
           poll[s].pc = "parse" => lock[poll[s].cgen][poll[s].path] = <<"poll", poll[s].id>>
    /\ \A r \in Runs :
           run[r].pc = "scanParse" => lock[run[r].cgen][PathList[run[r].scan]] = <<"run", r>>
    /\ \A s, t \in Slots :
           (s # t /\ poll[s].pc = "parse" /\ poll[t].pc = "parse") => poll[s].path # poll[t].path

\* run() number r has called setInterval for the watched mailbox p (line 236).
PassedWatch(r, p) ==
    \/ run[r].pc = "done"
    \/ /\ run[r].pc \in {"watch", "watching", "watched"}
       /\ \E k \in 1..(run[r].watch - 1) : Watched[k] = p

\* C17: every watched mailbox has one active recurring poller for each startup that
\* reached its setInterval, restarts included: none is ever cancelled.
C17_PollersAccumulate ==
    \A p \in WatchedPaths : intervals[p] = Cardinality({r \in Runs : PassedWatch(r, p)})

\* Two startups have completed and their pollers are both active.
C17_Witness ==
    /\ Cardinality({r \in Runs : run[r].pc = "done"}) = 2
    /\ \A p \in WatchedPaths : intervals[p] = 2

\* The boundary marker of a text: the last line left once the trailing segment of
\* the newline-split text is dropped, without its final two characters.
MarkerOf(t) == SliceOffTwo(Last(Pop(SplitLines(t))))

\* The text before the first place at which m stands in t (all of t if none).
BeforeFirst(t, m) ==
    IF \E i \in 1..(Len(t) + 1) : OccursAt(t, m, i)
    THEN LET i == CHOOSE i \in 1..(Len(t) + 1) :
                      OccursAt(t, m, i) /\ \A h \in 1..(i - 1) : ~OccursAt(t, m, h)
         IN  SubSeq(t, 1, i - 1)
    ELSE t

HelloThere == <<"H", "e", "l", "l", "o", " ", "t", "h", "e", "r", "e">>

\* C18: the content of a Mail built from a text with a line left after dropping the
\* trailing segment is the text before the first occurrence of the boundary marker,
\* trimmed; for the example body it is `Hello there`.
C18_KeepsTextBeforeMarker ==
    (mail.state = "built" /\ parsedMail.hasText) =>
        /\ Pop(SplitLines(parsedMail.text)) # <<>> =>
               mail.content = Trim(BeforeFirst(parsedMail.text, MarkerOf(parsedMail.text)))
        /\ parsedMail.text = ExampleBody => mail.content = HelloThere

\* C19: the Mail constructor never raises, and for an undefined text, an empty text
\* and a text with no line left after dropping the trailing segment (no newline) the
\* content is the empty string.
C19_ExtractionNeverFails ==
    /\ mail.state # "raised"
    /\ (mail.state = "built" /\ (~parsedMail.hasText \/ LF \notin Range(parsedMail.text)))
           => mail.content = <<>>

\* A Mail was built from a non-empty text on which the heuristic raises.
C19_Witness ==
    /\ mail.state = "built" /\ mail.content = <<>>
    /\ parsedMail.hasText /\ parsedMail.text # <<>> /\ LF \notin Range(parsedMail.text)

\* The step in which poll s's fetch succeeds (the lock is released) and the poll
\* returns with no new mail.
PollFoundNothing(s) ==
    /\ poll[s].pc = "fetch"
    /\ poll'[s].pc = "idle"
    /\ lock'[poll[s].cgen][poll[s].path] = None

\* C20: a successful poll reports nothing only when there is nothing to report: every
\* message then present in the mailbox was found by the initial scan or has already
\* been emitted as newMail.
C20_NoArrivalMissed ==
    [][\A s \in Slots :
          PollFoundNothing(s) =>
              store[poll[s].path] \subseteq (scanned[poll[s].path] \cup arrived[poll[s].path])]_vars

====
